---- MODULE Spec2Model ----
(***************************************************************************)
(* Model of package introspect: the type mapper (gqlTypeToGoType), the     *)
(* node builder (NewNode), the node graph (Nodes.Collect, Nodes.Link,      *)
(* Node.markCycles, Node.hasCycleWith) and the emitter (Nodes.ToGoTypes,   *)
(* toGoStruct, toGoInterface, toGoEnum, capitalize), and of package       *)
(* client: Client.Request.                                                 *)
(*                                                                         *)
(* Go values are represented as follows.                                   *)
(*   string       a TLA+ string; a string that capitalize takes apart      *)
(*                (a field or enum value name) is a sequence of            *)
(*                one-character strings, and Str turns it into a string.   *)
(*   *TypeRef     <<>> for nil, <<r>> for a pointer to r.                  *)
(*   *Node        the index of the node in the heap `nodes`.               *)
(*   panic        a result record with ok = FALSE.                         *)
(*   map range    a Go map is iterated in an unspecified order: every      *)
(*                order is a possible outcome.                             *)
(* The backquote character cannot be written in a TLA+ string: BQ stands   *)
(* for it in the rendered struct tags.                                     *)
(***************************************************************************)
EXTENDS Integers, Sequences, FiniteSets, TLC

VARIABLES
    ref,        \* the TypeRef handed to gqlTypeToGoType
    goType,     \* <<>> before the call, <<result>> after it
    nodes,      \* heap of Node objects, in allocation order
    hashMap,    \* Nodes.hashMap: name -> *Node
    sortOrder,  \* Nodes.sortOrder: names in insertion order
    links,      \* number of Link calls made so far
    goTypes,    \* <<>> before ToGoTypes, <<result>> after it
    text,       \* the string handed to capitalize
    exported,   \* <<>> before the call, <<result>> after it
    gqlType,    \* the Type handed to NewNode
    node,       \* <<>> before the call, <<result>> after it
    types,      \* schema.Types of the IntrospectionSchema handed to GetIntrospectionTypes
    ofTypes,    \* <<>> before the call, <<the map returned>> after it
    server,     \* Client.server, the URL given to NewClient
    token,      \* Client.token
    headers,    \* the caller's Header map: <<>> for nil, <<m>> for the map m
    supplied,   \* what the caller's map held when the caller built it
    sent,       \* <<>>, or <<req.Header of the last request handed to c.http.Do>>
    calls,      \* number of Request calls made so far
    last        \* the operation that ran last

\* the state of each part of the package
mapVars == <<ref, goType>>
graphVars == <<nodes, hashMap, sortOrder, links, goTypes>>
capVars == <<text, exported>>
nodeVars == <<gqlType, node>>
typesVars == <<types, ofTypes>>
reqVars == <<server, token, headers, supplied, sent, calls>>

vars == <<mapVars, graphVars, capVars, nodeVars, typesVars, reqVars, last>>

(***************************************************************************)
(* types.go: TypeKind                                                      *)
(***************************************************************************)
NULL == 0
NON_NULL == 1
SCALAR == 2
OBJECT == 3
INTERFACE == 4
\* UNION (a reserved word of TLA+)
UNION_ == 5
ENUM == 6
INPUT_OBJECT == 7
LIST == 8

TypeKinds == {NULL, NON_NULL, SCALAR, OBJECT, INTERFACE, UNION_, ENUM, INPUT_OBJECT, LIST}

\* TypeRef{Kind, Name, OfType}
TypeRef(kind, name, ofType) == [Kind |-> kind, Name |-> name, OfType |-> ofType]

\* a TypeRef without a wrapped reference, and a pointer to a TypeRef
Bare(kind, name) == TypeRef(kind, name, <<>>)
Ptr(r) == <<r>>

(***************************************************************************)
(* Results of calls that may panic.                                        *)
(***************************************************************************)
Ret(s) == [ok |-> TRUE, val |-> s]
Panic(msg) == [ok |-> FALSE, val |-> msg]
NilDeref == Panic("invalid memory address or nil pointer dereference")

\* "prefix" + <result of a call>: the panic of the call propagates
Prepend(prefix, r) == IF r.ok THEN Ret(prefix \o r.val) ELSE r

(***************************************************************************)
(* util.go: gqlTypeToGoType                                                *)
(***************************************************************************)
RECURSIVE gqlTypeToGoType(_)

\* the switch on ref.Name of the SCALAR case
scalarGoType(name) ==
    CASE name = "Int" -> "int"
      [] name = "Float" -> "float64"
      [] name = "Decimal" -> "float64"
      [] name = "String" -> "string"
      [] name = "Boolean" -> "bool"
      [] name = "ID" -> "string"
      [] OTHER -> "string"

\* mutant: the NON_NULL case forgets to unwrap
gqlTypeToGoType_NoUnwrap(r) ==
    CASE r.Kind = SCALAR -> Ret(scalarGoType(r.Name))
      [] r.Kind = OBJECT -> Ret(r.Name)
      [] r.Kind = NON_NULL -> Ret(r.Name)
      [] r.Kind = NULL ->
            IF r.OfType # <<>> THEN gqlTypeToGoType(r.OfType[1]) ELSE NilDeref
      [] r.Kind = LIST ->
            IF r.OfType # <<>> /\ r.OfType[1].Name # ""
            THEN Prepend("[]", gqlTypeToGoType(r.OfType[1]))
            ELSE Ret("[]any")
      [] r.Kind \in {ENUM, INPUT_OBJECT, INTERFACE} -> Ret(r.Name)
      [] r.Kind = UNION_ -> Ret("any")
      [] OTHER -> Ret("any")

\* mutant: the LIST case tests the name of the list, not of the wrapped reference
gqlTypeToGoType_ListOwnName(r) ==
    CASE r.Kind = SCALAR -> Ret(scalarGoType(r.Name))
      [] r.Kind = OBJECT -> Ret(r.Name)
      [] r.Kind = NON_NULL ->
            IF r.OfType # <<>> THEN gqlTypeToGoType(r.OfType[1]) ELSE Ret(r.Name)
      [] r.Kind = NULL ->
            IF r.OfType # <<>> THEN gqlTypeToGoType(r.OfType[1]) ELSE NilDeref
      [] r.Kind = LIST ->
            IF r.OfType # <<>> /\ r.Name # ""
            THEN Prepend("[]", gqlTypeToGoType(r.OfType[1]))
            ELSE Ret("[]any")
      [] r.Kind \in {ENUM, INPUT_OBJECT, INTERFACE} -> Ret(r.Name)
      [] r.Kind = UNION_ -> Ret("any")
      [] OTHER -> Ret("any")

gqlTypeToGoType(r) ==
    CASE r.Kind = SCALAR -> Ret(scalarGoType(r.Name))
      [] r.Kind = OBJECT -> Ret(r.Name)
      [] r.Kind = NON_NULL ->
            IF r.OfType # <<>> THEN gqlTypeToGoType(r.OfType[1]) ELSE Ret(r.Name)
      [] r.Kind = NULL ->
            \* *ref.OfType with no nil check
            IF r.OfType # <<>> THEN gqlTypeToGoType(r.OfType[1]) ELSE NilDeref
      [] r.Kind = LIST ->
            IF r.OfType # <<>> /\ r.OfType[1].Name # ""
            THEN Prepend("[]", gqlTypeToGoType(r.OfType[1]))
            ELSE Ret("[]any")
      [] r.Kind \in {ENUM, INPUT_OBJECT, INTERFACE} -> Ret(r.Name)
      [] r.Kind = UNION_ -> Ret("any")
      [] OTHER -> Ret("any")

(***************************************************************************)
(* The type references the mapper is applied to: every kind, named or      *)
(* not, wrapping up to MaxDepth references.                                *)
(***************************************************************************)
MaxDepth == 2

\* names of references that wrap nothing / that wrap another reference
LeafNames == {"", "Int", "Float", "User"}
WrapNames == {"", "User"}

RECURSIVE TypeRefs(_)
TypeRefs(d) ==
    {Bare(k, n) : k \in TypeKinds, n \in LeafNames}
    \cup (IF d = 0 THEN {}
          ELSE {TypeRef(k, n, Ptr(r)) :
                    k \in TypeKinds, n \in WrapNames, r \in TypeRefs(d - 1)})

\* the zero value TypeRef{}
ZeroRef == Bare(NULL, "")

\* the parts of the package that a run does not use
NoMap == ref = ZeroRef /\ goType = <<>>
NoGraph == nodes = <<>> /\ hashMap = <<>> /\ sortOrder = <<>> /\ links = 0 /\ goTypes = <<>>
NoCap == text = <<>> /\ exported = <<>>
NoNode == gqlType = <<>> /\ node = <<>>
NoTypes == types = <<>> /\ ofTypes = <<>>
NoReq ==
    /\ server = "" /\ token = "" /\ headers = <<>> /\ supplied = <<>>
    /\ sent = <<>> /\ calls = 0

\* gqlTypeToGoType(ref)
MapType ==
    /\ goType = <<>>
    /\ goType' = <<gqlTypeToGoType(ref)>>
    /\ last' = "gqlTypeToGoType"
    /\ UNCHANGED <<ref, graphVars, capVars, nodeVars, typesVars, reqVars>>

InitMap ==
    /\ ref \in TypeRefs(MaxDepth)
    /\ goType = <<>>
    /\ NoGraph /\ NoCap /\ NoNode /\ NoTypes /\ NoReq
    /\ last = "init"

NextMap == MapType

SpecMap == InitMap /\ [][NextMap]_vars

(***************************************************************************)
(* Strings that are taken apart: sequences of one-character strings.       *)
(***************************************************************************)
LowerCase == <<"a","b","c","d","e","f","g","h","i","j","k","l","m",
               "n","o","p","q","r","s","t","u","v","w","x","y","z">>
UpperCase == <<"A","B","C","D","E","F","G","H","I","J","K","L","M",
               "N","O","P","Q","R","S","T","U","V","W","X","Y","Z">>

\* strings.ToUpper and strings.ToLower on one character
ToUpperCh(c) ==
    IF \E i \in DOMAIN LowerCase : LowerCase[i] = c
    THEN UpperCase[CHOOSE i \in DOMAIN LowerCase : LowerCase[i] = c]
    ELSE c
ToLowerCh(c) ==
    IF \E i \in DOMAIN UpperCase : UpperCase[i] = c
    THEN LowerCase[CHOOSE i \in DOMAIN UpperCase : UpperCase[i] = c]
    ELSE c

\* strings.ToLower
ToLower(s) == [i \in DOMAIN s |-> ToLowerCh(s[i])]

\* the Go string of a sequence of characters
RECURSIVE Str(_)
Str(s) == IF s = <<>> THEN "" ELSE Head(s) \o Str(Tail(s))

\* strings.HasSuffix
HasSuffix(s, suffix) ==
    /\ Len(s) >= Len(suffix)
    /\ SubSeq(s, Len(s) - Len(suffix) + 1, Len(s)) = suffix

\* strings.Split(s, "_"): the words between the underscores, empty ones included
RECURSIVE SplitFrom(_, _, _)
SplitFrom(s, i, word) ==
    IF i > Len(s) THEN <<word>>
    ELSE IF s[i] = "_" THEN <<word>> \o SplitFrom(s, i + 1, <<>>)
    ELSE SplitFrom(s, i + 1, Append(word, s[i]))
Split(s) == SplitFrom(s, 1, <<>>)

(***************************************************************************)
(* util.go: capitalize.  The result is the set of outcomes over the        *)
(* iteration orders of the map `special`.                                  *)
(***************************************************************************)
special == [id |-> <<"I","D">>, uri |-> <<"U","R","I">>,
            url |-> <<"U","R","L">>, api |-> <<"A","P","I">>]
specialKey == [id |-> <<"i","d">>, uri |-> <<"u","r","i">>,
               url |-> <<"u","r","l">>, api |-> <<"a","p","i">>]
exceptions == << <<"v","a","l","i","d">>, <<"i","n","v","a","l","i","d">>,
                 <<"l","i","q","u","i","d">> >>

\* hasSuffix := func(s, suffix) { return strings.HasSuffix(strings.ToLower(s), suffix) }
hasSuffix(s, suffix) == HasSuffix(ToLower(s), suffix)

\* toUpper := func(s) { return strings.ToUpper(s[:1]) + s[1:] }
toUpper(s) ==
    IF s = <<>> THEN Panic("slice bounds out of range [:1] with length 0")
    ELSE Ret(<<ToUpperCh(s[1])>> \o Tail(s))

\* mutant: the special suffixes are looked for before the exceptions
capitalizeWord_SuffixFirst(word) ==
    IF \E k \in DOMAIN special : specialKey[k] = word
    THEN {special[CHOOSE k \in DOMAIN special : specialKey[k] = word]}
    ELSE LET hits == {k \in DOMAIN special :
                        Len(word) > Len(specialKey[k]) /\ hasSuffix(word, specialKey[k])}
         IN  IF hits = {} THEN {word}
             ELSE {SubSeq(word, 1, Len(word) - Len(specialKey[k])) \o special[k] : k \in hits}

capitalizeWord(word) ==
    IF \E k \in DOMAIN special : specialKey[k] = word
    THEN {special[CHOOSE k \in DOMAIN special : specialKey[k] = word]}
    ELSE IF \E i \in DOMAIN exceptions :
                Len(word) >= Len(exceptions[i]) /\ hasSuffix(word, exceptions[i])
    THEN {word}
    ELSE LET hits == {k \in DOMAIN special :
                        Len(word) > Len(specialKey[k]) /\ hasSuffix(word, specialKey[k])}
         IN  IF hits = {} THEN {word}
             ELSE {SubSeq(word, 1, Len(word) - Len(specialKey[k])) \o special[k] : k \in hits}

\* the outcomes of a call followed by the outcomes of the rest, concatenated
Then(A, B) == {IF a.ok THEN Prepend(a.val, b) ELSE a : a \in A, b \in B}

\* toUpper's result as a Go string
StrOf(r) == IF r.ok THEN Ret(Str(r.val)) ELSE r

RECURSIVE capitalizeWords(_)
capitalizeWords(words) ==
    IF words = <<>> THEN {Ret("")}
    ELSE Then({StrOf(toUpper(w)) : w \in capitalizeWord(Head(words))},
              capitalizeWords(Tail(words)))

capitalize(input) ==
    IF input = <<>> THEN {Ret("")} ELSE capitalizeWords(Split(input))

(***************************************************************************)
(* capitalize on its own: the names are up to MaxWords words of Words      *)
(* joined with underscores.                                                *)
(***************************************************************************)
MaxWords == 3

Words ==
    {<<>>, <<"i","d">>, <<"I","d">>, <<"u","r","i">>, <<"u","r","l">>,
     <<"a","p","i">>, <<"n","a","m","e">>, <<"x">>, <<"v","a","l","i","d">>,
     <<"I","n","v","a","l","i","d">>, <<"l","i","q","u","i","d">>,
     <<"s","t","a","t","u","s","V","a","l","i","d">>,
     <<"s","t","r","u","c","t","I","d">>, <<"a","p","i","U","r","l">>,
     <<"r","a","p","i","d">>, <<"U","R","L">>}

\* strings.Join(words, "_")
RECURSIVE JoinWords(_)
JoinWords(words) ==
    IF Len(words) = 1 THEN words[1]
    ELSE words[1] \o <<"_">> \o JoinWords(Tail(words))

\* the names of up to n words
Names(n) == {JoinWords(ws) : ws \in UNION {[1..k -> Words] : k \in 1..n}}

\* capitalize(text)
Capitalize ==
    /\ exported = <<>>
    /\ \E r \in capitalize(text) : exported' = <<r>>
    /\ last' = "capitalize"
    /\ UNCHANGED <<text, mapVars, graphVars, nodeVars, typesVars, reqVars>>

InitCap ==
    /\ text \in Names(MaxWords)
    /\ exported = <<>>
    /\ NoMap /\ NoGraph /\ NoNode /\ NoTypes /\ NoReq
    /\ last = "init"

NextCap == Capitalize

SpecCap == InitCap /\ [][NextCap]_vars

(***************************************************************************)
(* node.go: Node, FieldMeta, NewNode                                       *)
(***************************************************************************)
\* Field / InputField{Name, Type} and EnumValue{Name}
Field(name, type) == [Name |-> name, Type |-> type]
EnumValue(name) == [Name |-> name]

\* Type{Kind, Name, Fields, InputFields, EnumValues}
Type(kind, name, fields, inputFields, enumValues) ==
    [Kind |-> kind, Name |-> name, Fields |-> fields,
     InputFields |-> inputFields, EnumValues |-> enumValues]

\* &FieldMeta{...} for a field or input field f; hasCycle is the zero value
fieldMeta(f) ==
    [Name |-> f.Name,
     Type |-> gqlTypeToGoType(f.Type).val,
     JSONTag |-> f.Name,
     hasCycle |-> FALSE,
     isNullable |-> (f.Type.Kind = NULL \/ f.Type.OfType = <<>>)]

\* &FieldMeta{...} for an enum value v of the enum called name
enumFieldMeta(v, name) ==
    [Name |-> v.Name, Type |-> name, JSONTag |-> v.Name,
     hasCycle |-> FALSE, isNullable |-> FALSE]

\* the fields NewNode reads for a type of this kind
declaredFields(schema) ==
    IF schema.Kind \in {OBJECT, INTERFACE, UNION_} THEN schema.Fields
    ELSE IF schema.Kind = INPUT_OBJECT THEN schema.InputFields
    ELSE <<>>

\* NewNode(schema): the node, or the panic of gqlTypeToGoType
NewNode(schema) ==
    LET fs == declaredFields(schema)
        bad == {i \in DOMAIN fs : ~gqlTypeToGoType(fs[i].Type).ok}
    IN  IF bad # {}
        THEN gqlTypeToGoType(fs[CHOOSE i \in bad : \A j \in bad : i <= j].Type)
        ELSE Ret([Name |-> schema.Name,
                  Kind |-> schema.Kind,
                  Fields |-> IF schema.Kind = ENUM
                             THEN [i \in DOMAIN schema.EnumValues |->
                                        enumFieldMeta(schema.EnumValues[i], schema.Name)]
                             ELSE [i \in DOMAIN fs |-> fieldMeta(fs[i])],
                  Children |-> <<>>])

(***************************************************************************)
(* node.go: Nodes.Collect.  A node that is stored is allocated in the      *)
(* heap; a node that is dropped is garbage and is not kept.                *)
(***************************************************************************)
Graph(heap, hm, so) == [nodes |-> heap, hashMap |-> hm, sortOrder |-> so]

\* mutant: the presence test is missing
Collect_Overwrite(nd) ==
    Graph(Append(nodes, nd),
          [k \in DOMAIN hashMap \cup {nd.Name} |->
                IF k = nd.Name THEN Len(nodes) + 1 ELSE hashMap[k]],
          Append(sortOrder, nd.Name))

Collect(nd) ==
    IF nd.Name \in DOMAIN hashMap
    THEN Graph(nodes, hashMap, sortOrder)
    ELSE Graph(Append(nodes, nd),
               [k \in DOMAIN hashMap \cup {nd.Name} |->
                    IF k = nd.Name THEN Len(nodes) + 1 ELSE hashMap[k]],
               Append(sortOrder, nd.Name))

(***************************************************************************)
(* node.go: Node.hasCycleWith, Node.markCycles, Nodes.Link                 *)
(***************************************************************************)
\* the depth of nested calls at which the goroutine's stack is exhausted
MaxStack == 8

RECURSIVE hasCycleWith(_, _, _, _, _)
RECURSIVE hasCycleWithChildren(_, _, _, _, _)

\* mutant: only the two-hop cycle n -> n1 -> n is looked for
hasCycleWith_TwoHop(heap, n, n1, seen, d) ==
    [res |-> /\ heap[n1].Kind \in {OBJECT, INPUT_OBJECT}
             /\ \E i \in DOMAIN heap[n1].Children : heap[n1].Children[i] = n,
     seen |-> seen, depth |-> d]

\* mutant: a node that was seen ends the search instead of reporting a cycle
hasCycleWith_SeenEndsSearch(heap, n, n1, seen, d) ==
    IF heap[n].Name \in seen THEN [res |-> FALSE, seen |-> seen, depth |-> d]
    ELSE IF heap[n1].Kind # OBJECT /\ heap[n1].Kind # INPUT_OBJECT
    THEN [res |-> FALSE, seen |-> seen, depth |-> d]
    ELSE hasCycleWithChildren(heap, n1, 1, seen \cup {heap[n].Name}, d)

\* mutant: the children of a node of any kind are searched
hasCycleWith_AnyKind(heap, n, n1, seen, d) ==
    IF heap[n].Name \in seen THEN [res |-> TRUE, seen |-> seen, depth |-> d]
    ELSE hasCycleWithChildren(heap, n1, 1, seen \cup {heap[n].Name}, d)

\* mutant: the node is not recorded in seen
hasCycleWith_NothingSeen(heap, n, n1, seen, d) ==
    IF d > MaxStack THEN [res |-> FALSE, seen |-> seen, depth |-> d]
    ELSE IF heap[n].Name \in seen THEN [res |-> TRUE, seen |-> seen, depth |-> d]
    ELSE IF heap[n1].Kind # OBJECT /\ heap[n1].Kind # INPUT_OBJECT
    THEN [res |-> FALSE, seen |-> seen, depth |-> d]
    ELSE hasCycleWithChildren(heap, n1, 1, seen, d)

\* n.hasCycleWith(n1, seen) on the heap, as the d-th nested call:
\* [res: the result, seen: the map afterwards, depth: the deepest nested call made].
\* A call nested deeper than MaxStack does not run: the stack is exhausted, which
\* the depth above MaxStack reports.
hasCycleWith(heap, n, n1, seen, d) ==
    IF d > MaxStack THEN [res |-> FALSE, seen |-> seen, depth |-> d]
    ELSE IF heap[n].Name \in seen THEN [res |-> TRUE, seen |-> seen, depth |-> d]
    ELSE IF heap[n1].Kind # OBJECT /\ heap[n1].Kind # INPUT_OBJECT
    THEN [res |-> FALSE, seen |-> seen, depth |-> d]
    ELSE hasCycleWithChildren(heap, n1, 1, seen \cup {heap[n].Name}, d)

\* the loop `for _, c := range n1.Children` of the d-th nested call, from the
\* i-th child on
hasCycleWithChildren(heap, n1, i, seen, d) ==
    IF i > Len(heap[n1].Children) THEN [res |-> FALSE, seen |-> seen, depth |-> d]
    ELSE LET r == hasCycleWith(heap, n1, heap[n1].Children[i], seen, d + 1)
         IN  IF r.res \/ r.depth > MaxStack THEN r
             ELSE LET rest == hasCycleWithChildren(heap, n1, i + 1, r.seen, d)
                  IN  [rest EXCEPT !.depth = IF r.depth > @ THEN r.depth ELSE @]

\* mutant: a field on a cycle is made nullable as well
markFields_AlsoNullable(heap, n, c) ==
    [heap EXCEPT ![n].Fields =
        [i \in DOMAIN heap[n].Fields |->
            IF heap[n].Fields[i].Type = heap[c].Name
            THEN [heap[n].Fields[i] EXCEPT !.hasCycle = TRUE, !.isNullable = TRUE]
            ELSE heap[n].Fields[i]]]

\* the loop `for _, f := range n.Fields` of markCycles, for the child c
markFields(heap, n, c) ==
    [heap EXCEPT ![n].Fields =
        [i \in DOMAIN heap[n].Fields |->
            IF heap[n].Fields[i].Type = heap[c].Name
            THEN [heap[n].Fields[i] EXCEPT !.hasCycle = TRUE]
            ELSE heap[n].Fields[i]]]

\* the fatal error of a goroutine whose stack is exhausted
StackOverflow == Panic("stack overflow")

\* n.markCycles(), from the i-th child on: the heap afterwards, or the fatal error
RECURSIVE markCycles(_, _, _)
markCycles(heap, n, i) ==
    IF i > Len(heap[n].Children) THEN Ret(heap)
    ELSE LET c == heap[n].Children[i]
             r == hasCycleWith(heap, n, c, {}, 1)
         IN  IF r.depth > MaxStack THEN StackOverflow
             ELSE IF r.res THEN markCycles(markFields(heap, n, c), n, i + 1)
             ELSE markCycles(heap, n, i + 1)

RECURSIVE linkFields(_, _, _, _)

\* mutant: a child is appended for every field that refers to it
linkFields_EveryField(heap, nd, i, seen) ==
    IF i > Len(heap[nd].Fields) THEN heap
    ELSE LET t == heap[nd].Fields[i].Type
         IN  IF t \notin DOMAIN hashMap THEN linkFields(heap, nd, i + 1, seen)
             ELSE linkFields([heap EXCEPT ![nd].Children = Append(@, hashMap[t])],
                             nd, i + 1, seen)

\* the body of Link's first loop for the node nd, from the i-th field on
linkFields(heap, nd, i, seen) ==
    IF i > Len(heap[nd].Fields) THEN heap
    ELSE LET t == heap[nd].Fields[i].Type
         IN  IF t \notin DOMAIN hashMap THEN linkFields(heap, nd, i + 1, seen)
             ELSE linkFields(
                    IF t \notin seen
                    THEN [heap EXCEPT ![nd].Children = Append(@, hashMap[t])]
                    ELSE heap,
                    nd, i + 1, seen \cup {t})

\* Link's first loop, `for _, nd := range n.hashMap`, in the order `order`
RECURSIVE linkChildren(_, _)
linkChildren(heap, order) ==
    IF order = <<>> THEN heap
    ELSE linkChildren(linkFields(heap, hashMap[Head(order)], 1, {}), Tail(order))

\* Link's second loop, `for _, o := range n.sortOrder`, from the i-th name on
RECURSIVE markAll(_, _)
markAll(heap, i) ==
    IF i > Len(sortOrder) THEN Ret(heap)
    ELSE LET r == markCycles(heap, hashMap[sortOrder[i]], 1)
         IN  IF r.ok THEN markAll(r.val, i + 1) ELSE r

\* the orders in which a range over the map can visit its keys
Orders(keys) ==
    {o \in [1..Cardinality(keys) -> keys] : \A k \in keys : \E i \in DOMAIN o : o[i] = k}

\* mutant: the cycles of a node are marked as soon as its own children are linked
RECURSIVE linkAndMark(_, _)
linkAndMark(heap, order) ==
    IF order = <<>> THEN Ret(heap)
    ELSE LET nd == hashMap[Head(order)]
             r == markCycles(linkFields(heap, nd, 1, {}), nd, 1)
         IN  IF r.ok THEN linkAndMark(r.val, Tail(order)) ELSE r

Link_MarkWhileLinking == {linkAndMark(nodes, o) : o \in Orders(DOMAIN hashMap)}

\* the outcomes of Link over the iteration orders of the map: the heap it
\* leaves, or the fatal error
Link == {markAll(linked, 1) : linked \in {linkChildren(nodes, o) : o \in Orders(DOMAIN hashMap)}}

(***************************************************************************)
(* node.go: toGoStruct, toGoInterface, toGoEnum, Nodes.ToGoTypes.  Each    *)
(* yields the set of its outcomes (capitalize ranges over a map).          *)
(***************************************************************************)
\* stands for the backquote that opens and closes a struct tag
BQ == "'"

\* mutant: the two tests in the other order, so that nullable wins over hasCycle
fieldTmpl_NullableWins(f) ==
    IF f.isNullable THEN "nullable"
    ELSE IF f.hasCycle THEN "cycle"
    ELSE "plain"

\* the fieldTmpl toGoStruct ends up with for the field f
fieldTmpl(f) ==
    IF f.hasCycle THEN "cycle"
    ELSE IF f.isNullable THEN "nullable"
    ELSE "plain"

\* fmt.Sprintf(fieldTmpl, name, f.Type, f.JSONTag)
structField(tmpl, name, type, tag) ==
    CASE tmpl = "plain" ->
            "\t" \o name \o " " \o type \o " " \o BQ \o "json:\"" \o tag \o "\"" \o BQ \o "\n"
      [] tmpl = "nullable" ->
            "\t" \o name \o " *" \o type \o " " \o BQ \o "json:\"" \o tag \o ",omitempty\"" \o BQ \o "\n"
      [] tmpl = "cycle" ->
            "\t" \o name \o " *" \o type \o " " \o BQ \o "json:\"" \o tag \o "\"" \o BQ \o "\n"

\* the loop `for _, f := range n.Fields` of toGoStruct, from the i-th field on
RECURSIVE structFields(_, _)
structFields(fields, i) ==
    IF i > Len(fields) THEN {Ret("")}
    ELSE LET f == fields[i]
         IN  Then({IF c.ok
                    THEN Ret(structField(fieldTmpl(f), c.val, f.Type, Str(f.JSONTag)))
                    ELSE c : c \in capitalize(f.Name)},
                  structFields(fields, i + 1))

toGoStruct(n) ==
    Then({Ret("type " \o n.Name \o " struct {\n")},
         Then(structFields(n.Fields, 1), {Ret("}\n")}))

RECURSIVE interfaceFields(_, _)
interfaceFields(fields, i) ==
    IF i > Len(fields) THEN {Ret("")}
    ELSE LET f == fields[i]
         IN  Then({IF c.ok THEN Ret("\t" \o c.val \o "() " \o f.Type \o "\n") ELSE c :
                        c \in capitalize(f.Name)},
                  interfaceFields(fields, i + 1))

toGoInterface(n) ==
    Then({Ret("type " \o n.Name \o " interface {\n")},
         Then(interfaceFields(n.Fields, 1), {Ret("}\n")}))

RECURSIVE enumFields(_, _, _)
enumFields(name, fields, i) ==
    IF i > Len(fields) THEN {Ret("")}
    ELSE LET f == fields[i]
         IN  Then({IF c.ok
                    THEN Ret("\t" \o name \o c.val \o " " \o name \o " = \"" \o Str(f.Name) \o "\"\n")
                    ELSE c : c \in capitalize(ToLower(f.Name))},
                  enumFields(name, fields, i + 1))

toGoEnum(n) ==
    Then({Ret("type " \o n.Name \o " string\n\n" \o "const (\n")},
         Then(enumFields(n.Name, n.Fields, 1), {Ret(")\n")}))

\* mutant: a node of a kind without a Go form is left out of the output
toGoType_SkipUnsupported(nd) ==
    CASE nd.Kind \in {OBJECT, INPUT_OBJECT, UNION_} -> toGoStruct(nd)
      [] nd.Kind = INTERFACE -> toGoInterface(nd)
      [] nd.Kind = ENUM -> toGoEnum(nd)
      [] OTHER -> {Ret("")}

\* the switch of ToGoTypes for one node
toGoType(nd) ==
    CASE nd.Kind \in {OBJECT, INPUT_OBJECT, UNION_} -> toGoStruct(nd)
      [] nd.Kind = INTERFACE -> toGoInterface(nd)
      [] nd.Kind = ENUM -> toGoEnum(nd)
      [] OTHER -> {Panic("unsupported type: " \o ToString(nd.Kind))}

\* the loop of ToGoTypes over the names in `order`, then strings.Join(out, "\n")
RECURSIVE joinGoTypes(_, _)
joinGoTypes(order, i) ==
    IF i > Len(order) THEN {Ret("")}
    ELSE Then(toGoType(nodes[hashMap[order[i]]]),
              IF i = Len(order) THEN {Ret("")}
              ELSE Then({Ret("\n")}, joinGoTypes(order, i + 1)))

\* the outcomes of n.ToGoTypes()
ToGoTypes == joinGoTypes(sortOrder, 1)

(***************************************************************************)
(* The schema types the graph is built from.  Four type names, most of     *)
(* them declared in several ways: as in TestNodes_ToGoTypes ("schema with  *)
(* cycle"), and as leaves, a self reference, a three-node cycle, an        *)
(* interface and a union that point back, an enum, and a scalar.           *)
(***************************************************************************)
NonNull(r) == TypeRef(NON_NULL, "", Ptr(r))
ListOf(r) == TypeRef(LIST, "", Ptr(r))
\* a named reference that also carries itself as wrapped reference, as in the tests
Named(kind, name) == TypeRef(kind, name, Ptr(Bare(kind, name)))

f_name == <<"n","a","m","e">>
f_variant == <<"v","a","r","i","a","n","t">>
f_id == <<"i","d">>
f_barcode == <<"b","a","r","c","o","d","e">>
f_inventoryItem == <<"i","n","v","e","n","t","o","r","y","I","t","e","m">>
f_code == <<"h","a","r","m","o","n","i","z","e","d","S","y","s","t","e","m","C","o","d","e">>
f_image == <<"i","m","a","g","e">>
f_images == <<"i","m","a","g","e","s">>
f_sku == <<"s","k","u">>
f_product == <<"p","r","o","d","u","c","t">>
f_url == <<"u","r","l">>
f_parent == <<"p","a","r","e","n","t">>
f_underscoreId == <<"_","i","d">>
v_SMALL == <<"S","M","A","L","L">>
v_LARGE == <<"L","A","R","G","E">>

Product ==
    Type(OBJECT, "Product",
         <<Field(f_name, Named(SCALAR, "String")),
           Field(f_variant, Named(OBJECT, "ProductVariant"))>>, <<>>, <<>>)

ProductVariant ==
    Type(OBJECT, "ProductVariant",
         <<Field(f_id, TypeRef(SCALAR, "ID", Ptr(Bare(SCALAR, "String")))),
           Field(f_barcode, Named(SCALAR, "String")),
           Field(f_inventoryItem, NonNull(Bare(OBJECT, "InventoryItem")))>>, <<>>, <<>>)

InventoryItem ==
    Type(OBJECT, "InventoryItem",
         <<Field(f_code, Named(SCALAR, "String")),
           Field(f_variant, NonNull(Bare(OBJECT, "ProductVariant")))>>, <<>>, <<>>)

\* a variant with two children, both referenced by nullable fields
VariantTwoChildren ==
    Type(OBJECT, "ProductVariant",
         <<Field(f_inventoryItem, Bare(OBJECT, "InventoryItem")),
           Field(f_image, Bare(OBJECT, "Image"))>>, <<>>, <<>>)

\* an interface that points back at Product
VariantInterface ==
    Type(INTERFACE, "ProductVariant",
         <<Field(f_product, Bare(OBJECT, "Product")),
           Field(f_images, ListOf(Bare(OBJECT, "Image")))>>, <<>>, <<>>)

\* a leaf input object
ItemInput ==
    Type(INPUT_OBJECT, "InventoryItem", <<>>,
         <<Field(f_sku, Bare(SCALAR, "String"))>>, <<>>)

\* a union that points back at ProductVariant
ItemUnion ==
    Type(UNION_, "InventoryItem",
         <<Field(f_variant, Bare(OBJECT, "ProductVariant"))>>, <<>>, <<>>)

ImageLeaf ==
    Type(OBJECT, "Image", <<Field(f_url, Named(SCALAR, "String"))>>, <<>>, <<>>)

\* refers to itself, closes the three-node cycle Product -> ProductVariant ->
\* Image -> Product, and has a field name that starts with an underscore
ImageSelf ==
    Type(OBJECT, "Image",
         <<Field(f_product, Bare(OBJECT, "Product")),
           Field(f_parent, Bare(OBJECT, "Image")),
           Field(f_underscoreId, Named(SCALAR, "ID"))>>, <<>>, <<>>)

ImageEnum ==
    Type(ENUM, "Image", <<>>, <<>>, <<EnumValue(v_SMALL), EnumValue(v_LARGE)>>)

ImageScalar == Type(SCALAR, "Image", <<>>, <<>>, <<>>)

Schema ==
    {Product, ProductVariant, InventoryItem, VariantTwoChildren, VariantInterface,
     ItemInput, ItemUnion, ImageLeaf, ImageSelf, ImageEnum, ImageScalar}

(***************************************************************************)
(* The program: any number of Collect(NewNode(t)) calls, at most MaxLinks  *)
(* Link calls, and ToGoTypes calls, in any order, until one panics.        *)
(***************************************************************************)
MaxLinks == 2

Panicked == last \in {"panic", "fatal"}

\* nodes.Collect(NewNode(t))
CallCollect(t) ==
    /\ ~Panicked
    /\ LET nd == NewNode(t)
       IN  IF nd.ok
           THEN LET g == Collect(nd.val)
                IN  /\ nodes' = g.nodes
                    /\ hashMap' = g.hashMap
                    /\ sortOrder' = g.sortOrder
                    /\ last' = "Collect"
           ELSE /\ last' = "panic"
                /\ UNCHANGED <<nodes, hashMap, sortOrder>>
    /\ goTypes' = <<>>
    /\ UNCHANGED <<mapVars, links, capVars, nodeVars, typesVars, reqVars>>

\* nodes.Link()
CallLink ==
    /\ ~Panicked
    /\ links < MaxLinks
    /\ \E r \in Link :
            IF r.ok THEN nodes' = r.val /\ last' = "Link"
            ELSE UNCHANGED nodes /\ last' = "fatal"
    /\ links' = links + 1
    /\ goTypes' = <<>>
    /\ UNCHANGED <<mapVars, hashMap, sortOrder, capVars, nodeVars, typesVars, reqVars>>

\* nodes.ToGoTypes()
CallToGoTypes ==
    /\ ~Panicked
    /\ \E r \in ToGoTypes :
            /\ goTypes' = <<r>>
            /\ last' = IF r.ok THEN "ToGoTypes" ELSE "panic"
    /\ UNCHANGED <<mapVars, nodes, hashMap, sortOrder, links, capVars, nodeVars, typesVars, reqVars>>

\* NewNodes()
Init ==
    /\ nodes = <<>>
    /\ hashMap = <<>>
    /\ sortOrder = <<>>
    /\ links = 0
    /\ goTypes = <<>>
    /\ NoMap /\ NoCap /\ NoNode /\ NoTypes /\ NoReq
    /\ last = "NewNodes"

Next ==
    \/ \E t \in Schema : CallCollect(t)
    \/ CallLink
    \/ CallToGoTypes

Spec == Init /\ [][Next]_vars

(***************************************************************************)
(* NewNode on its own: types of every kind with up to MaxFields fields (or  *)
(* input fields), whose type references are wrapped and bare, named and    *)
(* unnamed, and with one other list of fields and up to two enum values.   *)
(***************************************************************************)
MaxFields == 2

FieldRefs ==
    {ZeroRef, Bare(SCALAR, "Int"), Named(SCALAR, "Int"), Bare(OBJECT, "User"),
     NonNull(Bare(OBJECT, "User")), TypeRef(NON_NULL, "", <<>>),
     ListOf(Bare(SCALAR, "Int")), TypeRef(NULL, "", Ptr(Bare(SCALAR, "Int")))}

\* the fields f1, f2, ... with the type references rs
FieldsOf(rs) == [i \in DOMAIN rs |-> Field(<<"f", ToString(i)>>, rs[i])]

\* the lists of up to n fields
FieldLists(n) == {FieldsOf(rs) : rs \in UNION {[1..k -> FieldRefs] : k \in 0..n}}
OtherLists == {<<>>, <<Field(f_sku, Bare(SCALAR, "String"))>>}
EnumLists == {<<>>, <<EnumValue(v_SMALL)>>, <<EnumValue(v_SMALL), EnumValue(v_LARGE)>>}

\* the types with up to n fields or input fields
GqlTypes(n) ==
    UNION {{Type(k, "T", fs, os, es), Type(k, "T", os, fs, es)} :
            k \in TypeKinds, fs \in FieldLists(n), os \in OtherLists, es \in EnumLists}

\* NewNode(gqlType)
BuildNode ==
    /\ node = <<>>
    /\ node' = <<NewNode(gqlType)>>
    /\ last' = "NewNode"
    /\ UNCHANGED <<gqlType, mapVars, graphVars, capVars, typesVars, reqVars>>

InitNode ==
    /\ gqlType \in GqlTypes(MaxFields)
    /\ node = <<>>
    /\ NoMap /\ NoGraph /\ NoCap /\ NoTypes /\ NoReq
    /\ last = "init"

NextNode == BuildNode

SpecNode == InitNode /\ [][NextNode]_vars

(***************************************************************************)
(* util.go: GetIntrospectionTypes.  The map is a function from the names   *)
(* to the TypeRefs; the schema is a sequence of up to MaxTypes types, those *)
(* of TestGetIntrospectionTypes and an interface, an enum and an input     *)
(* object.                                                                 *)
(***************************************************************************)
\* m[k] = v
Put(m, k, v) == [x \in DOMAIN m \cup {k} |-> IF x = k THEN v ELSE m[x]]

\* parseField(fieldType) on the map m
parseField(m, fieldType) ==
    IF fieldType.OfType # <<>>
    THEN IF fieldType.OfType[1].Name # ""
         THEN Put(m, fieldType.OfType[1].Name, fieldType.OfType[1])
         ELSE IF fieldType.Name # ""
         THEN Put(m, fieldType.Name, fieldType.OfType[1])
         ELSE m
    ELSE IF fieldType.Name # "" THEN Put(m, fieldType.Name, fieldType)
    ELSE m

\* the loops over gqlType.Fields and gqlType.InputFields, from the i-th field on
RECURSIVE parseFields(_, _, _)
parseFields(m, fields, i) ==
    IF i > Len(fields) THEN m
    ELSE parseFields(parseField(m, fields[i].Type), fields, i + 1)

\* the loop over schema.Types, from the i-th type on
RECURSIVE parseTypes(_, _, _)
parseTypes(m, ts, i) ==
    IF i > Len(ts) THEN m
    ELSE parseTypes(parseFields(parseFields(m, ts[i].Fields, 1), ts[i].InputFields, 1),
                    ts, i + 1)

GetIntrospectionTypes(ts) == parseTypes(<<>>, ts, 1)

MaxTypes == 3

f_field == <<"f","i","e","l","d">>
f_input == <<"i","n","p","u","t">>

UserType ==
    Type(NULL, "User",
         <<Field(f_field, Bare(SCALAR, "ID")),
           Field(f_field, TypeRef(NULL, "", Ptr(Bare(SCALAR, "Int")))),
           Field(f_field, ListOf(Bare(SCALAR, "String"))),
           Field(f_field, NonNull(Bare(SCALAR, "Boolean")))>>,
         <<Field(f_input, TypeRef(SCALAR, "Boolean", Ptr(Bare(SCALAR, "")))),
           Field(f_input, Bare(SCALAR, "Float"))>>, <<>>)
CustomType ==
    Type(NULL, "CustomType", <<Field(f_field, Bare(OBJECT, "Custom"))>>, <<>>, <<>>)
InterfaceType ==
    Type(INTERFACE, "InterfaceType", <<Field(f_field, Bare(SCALAR, "String"))>>, <<>>, <<>>)
ObjectType ==
    Type(OBJECT, "Query",
         <<Field(f_field, NonNull(Bare(OBJECT, "User")))>>,
         <<Field(f_input, Bare(SCALAR, "Date"))>>, <<>>)
InputType ==
    Type(INPUT_OBJECT, "UserInput",
         <<Field(f_field, Bare(SCALAR, "Time"))>>,
         <<Field(f_input, NonNull(Bare(SCALAR, "ID")))>>, <<>>)
NodeInterface ==
    Type(INTERFACE, "Node", <<Field(f_id, NonNull(Bare(SCALAR, "UUID")))>>, <<>>, <<>>)

SchemaTypes == {UserType, CustomType, InterfaceType, ObjectType, InputType, NodeInterface}

\* GetIntrospectionTypes(schema)
ExtractTypes ==
    /\ ofTypes = <<>>
    /\ ofTypes' = <<GetIntrospectionTypes(types)>>
    /\ last' = "GetIntrospectionTypes"
    /\ UNCHANGED <<types, mapVars, graphVars, capVars, nodeVars, reqVars>>

InitTypes ==
    /\ types \in UNION {[1..n -> SchemaTypes] : n \in 0..MaxTypes}
    /\ ofTypes = <<>>
    /\ NoMap /\ NoGraph /\ NoCap /\ NoNode /\ NoReq
    /\ last = "init"

NextTypes == ExtractTypes

SpecTypes == InitTypes /\ [][NextTypes]_vars

(***************************************************************************)
(* client.go: Client.Request.  A Header is a function from its keys to     *)
(* their values; the caller's map is an object that the calls share.  The  *)
(* caller makes up to MaxCalls calls with one map, or with nil.            *)
(***************************************************************************)
MaxCalls == 2

Servers == {"https://example.com/graphql", "://example.com"}
\* the URLs for which url.Parse, and so retryablehttp.NewRequest, returns an error
Unparseable == {"://example.com"}
Tokens == {"12345", "67890"}
HeaderKeys == {"Content-Type", "content-type", "X-Shopify-Access-Token", "Custom-Header"}
HeaderValues == {"application/json", "text/plain", "12345"}

\* the Header maps with keys of ks
Headers(ks) == UNION {[d -> HeaderValues] : d \in SUBSET ks}

\* textproto.CanonicalMIMEHeaderKey, which http.Header.Set applies to the key
CanonicalMIMEHeaderKey(k) == IF k = "content-type" THEN "Content-Type" ELSE k

\* maps.Copy(dst, src): dst afterwards
Copy(dst, src) ==
    [k \in DOMAIN dst \cup DOMAIN src |-> IF k \in DOMAIN src THEN src[k] ELSE dst[k]]

\* Header{"Content-Type": "application/json", "X-Shopify-Access-Token": c.token}
defaultHeaders ==
    [k \in {"Content-Type", "X-Shopify-Access-Token"} |->
        IF k = "Content-Type" THEN "application/json" ELSE token]

\* `for k, v := range reqHeaders { req.Header.Set(k, v) }`: the request headers
\* it can leave, over the iteration orders of the map (of the keys with one
\* canonical form, the one set last stays)
SetAll(reqHeaders) ==
    LET canon == {CanonicalMIMEHeaderKey(k) : k \in DOMAIN reqHeaders}
    IN  {h \in [canon -> HeaderValues \cup Tokens] :
            \A c \in canon : \E k \in DOMAIN reqHeaders :
                CanonicalMIMEHeaderKey(k) = c /\ reqHeaders[k] = h[c]}

\* c.Request(ctx, body, headers); c.http.Do returns a response or an error
Request ==
    /\ calls < MaxCalls
    /\ calls' = calls + 1
    /\ IF server \in Unparseable
       THEN /\ last' = "error"
            /\ sent' = <<>>
            /\ UNCHANGED headers
       ELSE LET reqHeaders == IF headers # <<>> THEN Copy(headers[1], defaultHeaders)
                              ELSE defaultHeaders
            IN  /\ headers' = IF headers # <<>> THEN <<reqHeaders>> ELSE <<>>
                /\ \E h \in SetAll(reqHeaders) : sent' = <<h>>
                /\ last' \in {"response", "error"}
    /\ UNCHANGED <<server, token, supplied, mapVars, graphVars, capVars, nodeVars, typesVars>>

\* NewClient(server, token) and the caller's Header literal
InitReq ==
    /\ server \in Servers
    /\ token \in Tokens
    /\ headers \in {<<>>} \cup {<<m>> : m \in Headers(HeaderKeys)}
    /\ supplied = headers
    /\ sent = <<>>
    /\ calls = 0
    /\ NoMap /\ NoGraph /\ NoCap /\ NoNode /\ NoTypes
    /\ last = "NewClient"

NextReq == Request

SpecReq == InitReq /\ [][NextReq]_vars

(***************************************************************************)
(* Definitions the properties are stated with.                             *)
(***************************************************************************)
Registered == {hashMap[k] : k \in DOMAIN hashMap}
Range(seq) == {seq[i] : i \in DOMAIN seq}
ChildrenOf(n) == Range(nodes[n].Children)
IsObject(n) == nodes[n].Kind \in {OBJECT, INPUT_OBJECT}

\* the OBJECT/INPUT_OBJECT nodes reachable from the nodes in S along child edges
\* that pass through OBJECT/INPUT_OBJECT nodes only
RECURSIVE ObjectReach(_)
ObjectReach(S) ==
    LET more == S \cup {c \in UNION {ChildrenOf(n) : n \in S} : IsObject(c)}
    IN  IF more = S THEN S ELSE ObjectReach(more)

\* there is a path from the child c back to n through OBJECT/INPUT_OBJECT nodes
LeadsBack(c, n) == IsObject(c) /\ IsObject(n) /\ n \in ObjectReach({c})

\* the nodes reachable from S along child edges, whatever their kind
RECURSIVE Reach(_)
Reach(S) ==
    LET more == S \cup UNION {ChildrenOf(n) : n \in S}
    IN  IF more = S THEN S ELSE Reach(more)

\* no node of the graph is on a reference cycle
Acyclic == \A n \in Registered : n \notin Reach(ChildrenOf(n))

\* the fields of n that refer to the node c
FieldsTo(n, c) == {i \in DOMAIN nodes[n].Fields : nodes[n].Fields[i].Type = nodes[c].Name}

\* what a node was built with: all of it but the children and the cycle flags
Declared(nd) ==
    [Name |-> nd.Name, Kind |-> nd.Kind,
     Fields |-> [i \in DOMAIN nd.Fields |-> [nd.Fields[i] EXCEPT !.hasCycle = FALSE]]]

\* the node n was built by NewNode from the schema type t
BuiltFrom(n, t) == Declared(nodes[n]) = Declared(NewNode(t).val)

(***************************************************************************)
(* C1  After any sequence of Collect calls the insertion-order sequence    *)
(* has no duplicates and holds exactly the keys of the name-to-node        *)
(* mapping, every name maps to a node of that name, and a step never       *)
(* changes the node a present name maps to nor the name's position: a      *)
(* Collect with a name that is present is dropped, the first one wins.     *)
(***************************************************************************)
C1_Wellformed ==
    /\ \A i, j \in DOMAIN sortOrder : sortOrder[i] = sortOrder[j] => i = j
    /\ Range(sortOrder) = DOMAIN hashMap
    /\ \A k \in DOMAIN hashMap : hashMap[k] \in DOMAIN nodes /\ nodes[hashMap[k]].Name = k

C1_Kept ==
    /\ Len(sortOrder') >= Len(sortOrder)
    /\ SubSeq(sortOrder', 1, Len(sortOrder)) = sortOrder
    /\ \A k \in DOMAIN hashMap :
            /\ k \in DOMAIN hashMap'
            /\ hashMap'[k] = hashMap[k]
            /\ Declared(nodes'[hashMap[k]]) = Declared(nodes[hashMap[k]])
    /\ \A k \in DOMAIN hashMap' \ DOMAIN hashMap :
            \E t \in Schema : NewNode(t) = Ret(nodes'[hashMap'[k]])

C1_FirstCollectWins == []C1_Wellformed /\ [][C1_Kept]_vars

\* a Collect of a name that is present has just been dropped: the graph holds one
\* node, Link ran while it was there, and the last call was a Collect
C1_Witness ==
    /\ last = "Collect"
    /\ Len(sortOrder) = 1
    /\ Len(nodes) = 1
    /\ nodes[1].Children # <<>>

(***************************************************************************)
(* C2  For a graph whose nodes are all of kind OBJECT, INPUT_OBJECT,       *)
(* UNION, INTERFACE or ENUM, ToGoTypes returns the declarations of the     *)
(* registered nodes, one for each, in the order in which the names were    *)
(* first collected.                                                        *)
(***************************************************************************)
SupportedKinds == {OBJECT, INPUT_OBJECT, UNION_, INTERFACE, ENUM}

\* the declarations of the nodes allocated from the i-th on, one for each, in the
\* order of their first Collect (a node is allocated when its name is collected first)
RECURSIVE DeclarationsFrom(_)
DeclarationsFrom(i) ==
    IF i > Len(nodes) THEN {Ret("")}
    ELSE Then(toGoType(nodes[i]),
              IF i = Len(nodes) THEN {Ret("")}
              ELSE Then({Ret("\n")}, DeclarationsFrom(i + 1)))

C2_OneDeclarationEachInOrder ==
    (/\ goTypes # <<>>
     /\ \A n \in Registered : nodes[n].Kind \in SupportedKinds)
    => /\ goTypes[1].ok
       /\ goTypes[1] \in DeclarationsFrom(1)

(***************************************************************************)
(* C3  Cycle-marking completeness: after Link, for every registered        *)
(* OBJECT or INPUT_OBJECT node N and every child C of N from which N is    *)
(* reachable along child edges through OBJECT/INPUT_OBJECT nodes, every    *)
(* field of N whose type is C's name has hasCycle set.                     *)
(***************************************************************************)
C3_CyclesAreMarked ==
    last = "Link" =>
        \A n \in Registered : \A c \in ChildrenOf(n) :
            LeadsBack(c, n) => \A i \in FieldsTo(n, c) : nodes[n].Fields[i].hasCycle

\* a cycle of three nodes was marked: n -> c -> ... -> n where c is not n and
\* n is no child of c
C3_Witness ==
    /\ last = "Link"
    /\ \E n \in Registered : \E c \in ChildrenOf(n) :
            /\ c # n
            /\ n \notin ChildrenOf(c)
            /\ LeadsBack(c, n)
            /\ FieldsTo(n, c) # {}
            /\ \A i \in FieldsTo(n, c) : nodes[n].Fields[i].hasCycle

(***************************************************************************)
(* C4  Cycle-marking soundness: after Link, a field has hasCycle set only  *)
(* if its type names a child from which the node itself is reachable.      *)
(* Stated for the case the claim singles out: in a graph with no reference *)
(* cycle (a node whose child has two leaf children) no field is flagged.   *)
(***************************************************************************)
C4_NoCycleNoFlag ==
    (last = "Link" /\ Acyclic) =>
        \A n \in Registered : \A i \in DOMAIN nodes[n].Fields : ~nodes[n].Fields[i].hasCycle

(***************************************************************************)
(* C5  Product, ProductVariant and InventoryItem as in the test "schema    *)
(* with cycle", collected in that order: after Link, ToGoTypes renders all *)
(* three reference fields as pointers without omitempty, the field of      *)
(* Product that only leads into the cycle included.                        *)
(***************************************************************************)
SchemaWithCycle ==
    /\ Len(nodes) = 3
    /\ BuiltFrom(1, Product)
    /\ BuiltFrom(2, ProductVariant)
    /\ BuiltFrom(3, InventoryItem)
    \* Link ran after the last of them was collected
    /\ nodes[3].Children # <<>>

SchemaWithCycleGoTypes ==
    "type Product struct {\n"
    \o "\tName string " \o BQ \o "json:\"name\"" \o BQ \o "\n"
    \o "\tVariant *ProductVariant " \o BQ \o "json:\"variant\"" \o BQ \o "\n"
    \o "}\n"
    \o "\n"
    \o "type ProductVariant struct {\n"
    \o "\tID string " \o BQ \o "json:\"id\"" \o BQ \o "\n"
    \o "\tBarcode string " \o BQ \o "json:\"barcode\"" \o BQ \o "\n"
    \o "\tInventoryItem *InventoryItem " \o BQ \o "json:\"inventoryItem\"" \o BQ \o "\n"
    \o "}\n"
    \o "\n"
    \o "type InventoryItem struct {\n"
    \o "\tHarmonizedSystemCode string " \o BQ \o "json:\"harmonizedSystemCode\"" \o BQ \o "\n"
    \o "\tVariant *ProductVariant " \o BQ \o "json:\"variant\"" \o BQ \o "\n"
    \o "}\n"

C5_SchemaWithCycle ==
    SchemaWithCycle =>
        /\ nodes[1].Fields[2].hasCycle
        /\ nodes[2].Fields[3].hasCycle
        /\ nodes[3].Fields[2].hasCycle
        /\ goTypes # <<>> => goTypes[1] = Ret(SchemaWithCycleGoTypes)

C5_Witness ==
    /\ SchemaWithCycle
    /\ goTypes # <<>>
    /\ goTypes[1] = Ret(SchemaWithCycleGoTypes)

(***************************************************************************)
(* C6  The type mapper is total: for every TypeRef it returns a string and *)
(* never panics.                                                           *)
(***************************************************************************)
C6_MapperTotal == goType # <<>> => goType[1].ok

(***************************************************************************)
(* C7  A LIST or NON_NULL reference with no wrapped reference maps to the  *)
(* any representation, "any" for NON_NULL and "[]any" for LIST, whatever   *)
(* its own name.                                                           *)
(***************************************************************************)
C7_UnwrappedIsAny ==
    (goType # <<>> /\ ref.OfType = <<>>) =>
        /\ ref.Kind = NON_NULL => goType[1] = Ret("any")
        /\ ref.Kind = LIST => goType[1] = Ret("[]any")

(***************************************************************************)
(* C8  Transparency of the nullability wrappers: mapping a NON_NULL or a   *)
(* NULL reference that wraps r has the outcome of mapping r itself (the    *)
(* same string; where mapping r panics, so does mapping the wrapper).      *)
(***************************************************************************)
C8_WrappersAreTransparent ==
    (goType # <<>> /\ ref.Kind \in {NON_NULL, NULL} /\ ref.OfType # <<>>) =>
        goType[1] = gqlTypeToGoType(ref.OfType[1])

\* NON_NULL around a list of Float was mapped to the mapping of the list
C8_Witness ==
    /\ goType = <<Ret("[]float64")>>
    /\ ref.Kind = NON_NULL
    /\ ref.OfType # <<>>
    /\ ref.OfType[1].Kind = LIST

(***************************************************************************)
(* C9  A LIST reference whose wrapped reference has a name maps to "[]"    *)
(* followed by the mapping of the wrapped reference; a LIST reference      *)
(* whose wrapped reference is absent or has no name (a nested LIST or a    *)
(* NON_NULL wrapper without a name included) maps to "[]any".              *)
(***************************************************************************)
C9_ListMapping ==
    (goType # <<>> /\ ref.Kind = LIST) =>
        IF ref.OfType # <<>> /\ ref.OfType[1].Name # ""
        THEN goType[1] = Prepend("[]", gqlTypeToGoType(ref.OfType[1]))
        ELSE goType[1] = Ret("[]any")

\* a list of the named scalar Int was mapped to "[]int"
C9_Witness ==
    /\ goType = <<Ret("[]int")>>
    /\ ref.Kind = LIST
    /\ ref.OfType = Ptr(Bare(SCALAR, "Int"))

(***************************************************************************)
(* C10  A struct field is rendered by strict precedence: with hasCycle     *)
(* set, a pointer with a plain json tag (also when it is nullable);        *)
(* otherwise, when nullable, a pointer with an omitempty json tag;         *)
(* otherwise a value with a plain json tag.  The fields come in            *)
(* declaration order, the tag being the original field name.               *)
(***************************************************************************)
\* the line the claim describes for the field f, its exported name being name
ClaimedStructField(f, name) ==
    LET tag == BQ \o "json:\"" \o Str(f.Name) \o "\"" \o BQ
        omit == BQ \o "json:\"" \o Str(f.Name) \o ",omitempty\"" \o BQ
    IN  IF f.hasCycle THEN "\t" \o name \o " *" \o f.Type \o " " \o tag \o "\n"
        ELSE IF f.isNullable THEN "\t" \o name \o " *" \o f.Type \o " " \o omit \o "\n"
        ELSE "\t" \o name \o " " \o f.Type \o " " \o tag \o "\n"

RECURSIVE ClaimedStructFields(_, _)
ClaimedStructFields(fields, i) ==
    IF i > Len(fields) THEN {Ret("")}
    ELSE Then({IF c.ok THEN Ret(ClaimedStructField(fields[i], c.val)) ELSE c :
                    c \in capitalize(fields[i].Name)},
              ClaimedStructFields(fields, i + 1))

ClaimedDeclaration(nd) ==
    IF nd.Kind \in {OBJECT, INPUT_OBJECT, UNION_}
    THEN Then({Ret("type " \o nd.Name \o " struct {\n")},
              Then(ClaimedStructFields(nd.Fields, 1), {Ret("}\n")}))
    ELSE toGoType(nd)

RECURSIVE ClaimedGoTypes(_)
ClaimedGoTypes(i) ==
    IF i > Len(sortOrder) THEN {Ret("")}
    ELSE Then(ClaimedDeclaration(nodes[hashMap[sortOrder[i]]]),
              IF i = Len(sortOrder) THEN {Ret("")}
              ELSE Then({Ret("\n")}, ClaimedGoTypes(i + 1)))

C10_StructFieldPrecedence ==
    (goTypes # <<>> /\ goTypes[1].ok) => goTypes[1] \in ClaimedGoTypes(1)

\* structs were emitted with a field that is nullable and on a cycle, a field that
\* is nullable only, and a field that is neither
C10_Witness ==
    /\ goTypes # <<>>
    /\ goTypes[1].ok
    /\ \E n \in Registered : \E i \in DOMAIN nodes[n].Fields :
            nodes[n].Kind = OBJECT /\ nodes[n].Fields[i].hasCycle /\ nodes[n].Fields[i].isNullable
    /\ \E n \in Registered : \E i \in DOMAIN nodes[n].Fields :
            nodes[n].Kind = OBJECT /\ ~nodes[n].Fields[i].hasCycle /\ nodes[n].Fields[i].isNullable
    /\ \E n \in Registered : \E i \in DOMAIN nodes[n].Fields :
            nodes[n].Kind = OBJECT /\ ~nodes[n].Fields[i].hasCycle /\ ~nodes[n].Fields[i].isNullable

(***************************************************************************)
(* C11: when the graph holds a node whose kind is SCALAR, LIST, NON_NULL   *)
(* or NULL, ToGoTypes ends in a panic and returns no output: a returned    *)
(* output never leaves a registered node out.                              *)
(***************************************************************************)
C11_UnsupportedKindIsFatal ==
    (goTypes # <<>> /\ \E n \in Registered : nodes[n].Kind \notin SupportedKinds)
        => (~goTypes[1].ok /\ last = "panic")

\* ToGoTypes reached the scalar node after emitting a supported one
C11_Witness ==
    /\ goTypes = <<Panic("unsupported type: " \o ToString(SCALAR))>>
    /\ Len(sortOrder) >= 2
    /\ nodes[hashMap[sortOrder[1]]].Kind \in SupportedKinds
    /\ \E n \in Registered : nodes[n].Kind = SCALAR

(***************************************************************************)
(* C12: capitalize is total: every input yields a result, also one that    *)
(* has an empty word between, before or after its underscores.             *)
(***************************************************************************)
C12_CapitalizeTotal == exported # <<>> => exported[1].ok

(***************************************************************************)
(* C13: whenever capitalize returns, each word of the input became, in     *)
(* this order of precedence: the upper-case form of the special word it    *)
(* equals; itself with the first letter upper-cased when its lower-cased   *)
(* form ends with valid, invalid or liquid; itself with the special word   *)
(* at its end upper-cased (and the first letter upper-cased) when it is    *)
(* longer than and ends, whatever the case, with a special word; itself    *)
(* with the first letter upper-cased otherwise.  The words are joined      *)
(* with nothing between them, and the call has one possible outcome        *)
(* whatever the order in which the table of special words is visited.      *)
(***************************************************************************)
SpecialWords == {<<"i","d">>, <<"u","r","i">>, <<"u","r","l">>, <<"a","p","i">>}
ExceptionWords == {<<"v","a","l","i","d">>, <<"i","n","v","a","l","i","d">>,
                   <<"l","i","q","u","i","d">>}
ToUpper(s) == [i \in DOMAIN s |-> ToUpperCh(s[i])]
FirstUpper(s) == [i \in DOMAIN s |-> IF i = 1 THEN ToUpperCh(s[i]) ELSE s[i]]
EndsWith(w, e) == HasSuffix(ToLower(w), e)
ClaimedWord(w) ==
    IF w \in SpecialWords THEN ToUpper(w)
    ELSE IF \E e \in ExceptionWords : EndsWith(w, e) THEN FirstUpper(w)
    ELSE IF \E k \in SpecialWords : Len(w) > Len(k) /\ EndsWith(w, k)
    THEN LET k == CHOOSE k \in SpecialWords : Len(w) > Len(k) /\ EndsWith(w, k)
         IN  FirstUpper(SubSeq(w, 1, Len(w) - Len(k)) \o ToUpper(k))
    ELSE FirstUpper(w)
RECURSIVE ClaimedWords(_)
ClaimedWords(ws) ==
    IF ws = <<>> THEN "" ELSE Str(ClaimedWord(Head(ws))) \o ClaimedWords(Tail(ws))

C13_WordPrecedence ==
    exported # <<>> =>
        /\ capitalize(text) = {exported[1]}
        /\ exported[1].ok => exported[1].val = ClaimedWords(Split(text))

\* a name with a special word, an exception that ends with a special word and a
\* word that ends with a special word
C13_Witness ==
    /\ exported # <<>> /\ exported[1].ok
    /\ <<"i","d">> \in Range(Split(text))
    /\ <<"s","t","a","t","u","s","V","a","l","i","d">> \in Range(Split(text))
    /\ <<"a","p","i","U","r","l">> \in Range(Split(text))

(***************************************************************************)
(* C14: after the one Link call on a graph that was only collected, the    *)
(* children of each node are the registered nodes that one of its fields   *)
(* names by its mapped type (the node itself when a field names it), each  *)
(* of them once, in the order of the first field that names them; a type   *)
(* that is not registered gives no child, and a child is the node stored   *)
(* under its name.                                                         *)
(***************************************************************************)
FirstFieldTo(n, c) == CHOOSE i \in FieldsTo(n, c) : \A j \in FieldsTo(n, c) : i <= j

C14_ChildrenAreReferencedNodes ==
    (last = "Link" /\ links = 1) =>
        \A n \in Registered :
            LET ch == nodes[n].Children
                referenced == {nodes[n].Fields[i].Type : i \in DOMAIN nodes[n].Fields}
            IN  /\ \A i, j \in DOMAIN ch : ch[i] = ch[j] => i = j
                /\ Range(ch) = {hashMap[t] : t \in referenced \cap DOMAIN hashMap}
                /\ \A i, j \in DOMAIN ch :
                        i < j => FirstFieldTo(n, ch[i]) < FirstFieldTo(n, ch[j])

\* a node that two fields name (itself), a node with two children, and a
\* field of a type that is not registered
C14_Witness ==
    /\ last = "Link" /\ links = 1
    /\ \E n \in Registered :
            /\ nodes[n].Children = <<n>>
            /\ Cardinality(FieldsTo(n, n)) = 2
    /\ \E n \in Registered : Len(nodes[n].Children) = 2
    /\ \E n \in Registered : \E i \in DOMAIN nodes[n].Fields :
            nodes[n].Fields[i].Type \notin DOMAIN hashMap

(***************************************************************************)
(* C15: NewNode builds, for a type of kind OBJECT, INTERFACE or UNION, one *)
(* FieldMeta for each of its fields, in their order, and for an            *)
(* INPUT_OBJECT one for each of its input fields; the FieldMeta is         *)
(* nullable exactly when the type reference has kind NULL or wraps         *)
(* nothing.  For an ENUM it builds one FieldMeta for each value, whose     *)
(* type is the enum's name and which is not nullable.  For every other     *)
(* kind it builds no FieldMeta.                                            *)
(***************************************************************************)
ClaimedNullable(r) == r.Kind = NULL \/ r.OfType = <<>>

ClaimedFieldsBuilt(t, fields) ==
    LET declared == IF t.Kind \in {OBJECT, INTERFACE, UNION_} THEN t.Fields
                    ELSE IF t.Kind = INPUT_OBJECT THEN t.InputFields
                    ELSE IF t.Kind = ENUM THEN t.EnumValues
                    ELSE <<>>
    IN  /\ Len(fields) = Len(declared)
        /\ \A i \in DOMAIN declared :
                /\ fields[i].Name = declared[i].Name
                /\ IF t.Kind = ENUM
                   THEN fields[i].Type = t.Name /\ ~fields[i].isNullable
                   ELSE fields[i].isNullable = ClaimedNullable(declared[i].Type)

C15_FieldMetaPerDeclaredField ==
    node # <<>> => (node[1].ok /\ ClaimedFieldsBuilt(gqlType, node[1].val.Fields))

(***************************************************************************)
(* C16: the map GetIntrospectionTypes returns has entries only for the     *)
(* type references of the fields of OBJECT types and of the input fields   *)
(* of INPUT_OBJECT types: a type of another kind adds no entry, and a name *)
(* that only such a type refers to is not in the map.                      *)
(***************************************************************************)
ReferencedName(r) ==
    IF r.OfType # <<>> /\ r.OfType[1].Name # "" THEN r.OfType[1].Name ELSE r.Name

ClaimedContributions(t) ==
    IF t.Kind = OBJECT THEN {ReferencedName(t.Fields[i].Type) : i \in DOMAIN t.Fields}
    ELSE IF t.Kind = INPUT_OBJECT
    THEN {ReferencedName(t.InputFields[i].Type) : i \in DOMAIN t.InputFields}
    ELSE {}

C16_OnlyObjectsAndInputObjects ==
    ofTypes # <<>> =>
        DOMAIN ofTypes[1] \subseteq UNION {ClaimedContributions(types[i]) : i \in DOMAIN types}

(***************************************************************************)
(* C17: no field whose mapped type names a registered node of kind         *)
(* INTERFACE, ENUM or UNION has hasCycle set, after Link as before it,     *)
(* also when that node has fields that point back at the field's node.     *)
(***************************************************************************)
C17_NoCycleThroughNonObjects ==
    \A n \in Registered : \A i \in DOMAIN nodes[n].Fields :
        LET t == nodes[n].Fields[i].Type
        IN  (t \in DOMAIN hashMap /\ nodes[hashMap[t]].Kind \in {INTERFACE, ENUM, UNION_})
                => ~nodes[n].Fields[i].hasCycle

\* Link ran on a graph where an interface or a union is the child of a node
\* and has that node as its child
C17_Witness ==
    /\ last = "Link"
    /\ \E n \in Registered : \E c \in ChildrenOf(n) :
            /\ nodes[c].Kind \in {INTERFACE, UNION_}
            /\ n \in ChildrenOf(c)
            /\ nodes[n].Kind = OBJECT
            /\ \A i \in FieldsTo(n, c) : ~nodes[n].Fields[i].hasCycle

(***************************************************************************)
(* C18: Link terminates.  A Link call ends without exhausting the stack,   *)
(* and each hasCycleWith call that markCycles makes returns after at most  *)
(* as many nested calls as there are registered nodes, plus one.           *)
(***************************************************************************)
C18_LinkTerminates ==
    /\ last # "fatal"
    /\ last = "Link" =>
            \A n \in Registered : \A c \in ChildrenOf(n) :
                hasCycleWith(nodes, n, c, {}, 1).depth <= Cardinality(Registered) + 1

\* Link ran on four nodes and a search went as deep as that allows
C18_Witness ==
    /\ last = "Link"
    /\ Cardinality(Registered) = 4
    /\ \E n \in Registered : \E c \in ChildrenOf(n) :
            hasCycleWith(nodes, n, c, {}, 1).depth = 5

(***************************************************************************)
(* C19: the graph a Link call leaves is the one it leaves for every order  *)
(* in which the name-to-node map can be visited, children lists and cycle  *)
(* flags alike; and the flags that the first Link sets are those that      *)
(* hasCycleWith finds on the complete children lists.                      *)
(***************************************************************************)
C19_LinkStep ==
    (links' = links + 1 /\ last' = "Link") =>
        /\ \A o \in Orders(DOMAIN hashMap) :
                markAll(linkChildren(nodes, o), 1) = Ret(nodes')
        /\ links = 0 =>
                \A n \in DOMAIN nodes' : \A i \in DOMAIN nodes'[n].Fields :
                    nodes'[n].Fields[i].hasCycle =
                        \E j \in DOMAIN nodes'[n].Children :
                            LET c == nodes'[n].Children[j]
                            IN  /\ nodes'[n].Fields[i].Type = nodes'[c].Name
                                /\ hasCycleWith(nodes', n, c, {}, 1).res

C19_LinkIgnoresMapOrder == [][C19_LinkStep]_vars

\* Link ran on four nodes, some of whose fields are on a cycle and some not
C19_Witness ==
    /\ last = "Link" /\ links = 1
    /\ Cardinality(Registered) = 4
    /\ \E n \in Registered : \E i \in DOMAIN nodes[n].Fields : nodes[n].Fields[i].hasCycle
    /\ \E n \in Registered : \E c \in ChildrenOf(n) :
            \A i \in FieldsTo(n, c) : ~nodes[n].Fields[i].hasCycle

(***************************************************************************)
(* C20: hasCycle is false on every field of a node that NewNode built and  *)
(* stays false through Collect: before the first Link no field has it set. *)
(* Only Link changes it, and only from false to true.  Link changes        *)
(* nothing but the children lists and hasCycle: the registered names,      *)
(* their order, and each node's kind and each field's name, type, tag and  *)
(* nullability are as before.                                              *)
(***************************************************************************)
NoCycleFlag(nd) == \A i \in DOMAIN nd.Fields : ~nd.Fields[i].hasCycle

C20_FreshFlags == links = 0 => \A n \in DOMAIN nodes : NoCycleFlag(nodes[n])

C20_Step ==
    IF links' = links + 1
    THEN /\ hashMap' = hashMap
         /\ sortOrder' = sortOrder
         /\ DOMAIN nodes' = DOMAIN nodes
         /\ \A n \in DOMAIN nodes :
                /\ Declared(nodes'[n]) = Declared(nodes[n])
                /\ \A i \in DOMAIN nodes[n].Fields :
                        nodes[n].Fields[i].hasCycle => nodes'[n].Fields[i].hasCycle
    ELSE /\ \A n \in DOMAIN nodes : n \in DOMAIN nodes' /\ nodes'[n] = nodes[n]
         /\ \A n \in DOMAIN nodes' \ DOMAIN nodes :
                NoCycleFlag(nodes'[n]) /\ nodes'[n].Children = <<>>

C20_OnlyLinkSetsFlags == []C20_FreshFlags /\ [][C20_Step]_vars

\* two Links ran: a flag is set, and a node whose fields name no registered
\* type has no children
C20_Witness ==
    /\ last = "Link" /\ links = 2
    /\ \E n \in Registered : ~NoCycleFlag(nodes[n])
    /\ \E n \in Registered : nodes[n].Children = <<>> /\ nodes[n].Fields # <<>>

(***************************************************************************)
(* C21: Link is idempotent.  After any calls of Collect and Link that end  *)
(* with Link, the children list of every node has no duplicates and is     *)
(* the list that a single Link over the registered nodes builds, and the   *)
(* hasCycle flags are those of that single Link.                           *)
(***************************************************************************)
\* the nodes as Collect stored them: no children, no flag
RECURSIVE AsCollected(_)
AsCollected(heap) ==
    IF heap = <<>> THEN <<>>
    ELSE LET nd == heap[Len(heap)]
         IN  Append(AsCollected(SubSeq(heap, 1, Len(heap) - 1)),
                    [Name |-> nd.Name,
                     Kind |-> nd.Kind,
                     Fields |-> [i \in DOMAIN nd.Fields |->
                                    [nd.Fields[i] EXCEPT !.hasCycle = FALSE]],
                     Children |-> <<>>])

SingleLink ==
    {markAll(linkChildren(AsCollected(nodes), o), 1) : o \in Orders(DOMAIN hashMap)}

C21_LinkIdempotent ==
    last = "Link" =>
        /\ \A n \in Registered : \A i, j \in DOMAIN nodes[n].Children :
                nodes[n].Children[i] = nodes[n].Children[j] => i = j
        /\ SingleLink = {Ret(nodes)}

(***************************************************************************)
(* C22: Request does not modify the caller's header map: after each call,  *)
(* whether it returned a response or an error, the map holds the keys and  *)
(* values the caller put in it.                                            *)
(***************************************************************************)
C22_CallerHeadersUnchanged == calls > 0 => headers = supplied

=============================================================================
